---- MODULE Spec2Model ----
(***************************************************************************)
(* A model of rajhi_importer.Importer (src/rajhi_importer/rajhi_importer.py)*)
(*                                                                         *)
(* Text is modelled at the granularity the regular expressions of the      *)
(* importer work at: a line is a sequence of whitespace-free tokens that   *)
(* were separated by single blanks, a raw line also records whether it     *)
(* starts with whitespace.  Every token of the alphabet below belongs      *)
(* wholly to one lexical class (decimal, dd/mm/yy date, three upper-case   *)
(* letters, keyword, word), so a regular expression of the source is the   *)
(* corresponding test on the token sequence.                               *)
(*                                                                         *)
(* Python's None is the empty sequence <<>> and a present value v is       *)
(* <<v>> (None == <<>>, Some(v) == <<v>>).                                 *)
(***************************************************************************)
EXTENDS Integers, Sequences, FiniteSets, TLC

VARIABLES
    pc,             \* position of the call: "start", "loop", "done", "raised", ...
    text,           \* extract/date: the document text, a sequence of raw lines
    clean_lines,    \* extract: the lines the sanitizer kept
    lines,          \* extract: the stripped, non-blank lines
    i,              \* extract: the cursor
    entries,        \* extract: the records appended so far
    units,          \* extract: the local variable units (None while unbound)
    exc,            \* the exception that ended the call (None if none)
    srcs,           \* history: the cursor value each record was appended at
    extracted,      \* history: the local field values each record was built from
    visited,        \* history: the cursor value of each loop iteration begun
    mimetype,       \* identify: the media type guessed from the file path
    pages,          \* identify: the text of each page of the document
    account_number, \* identify: the configured search token
    result          \* identify/date: the value returned (None while not returned)

vars == <<pc, text, clean_lines, lines, i, entries, units, exc, srcs, extracted,
          visited, mimetype, pages, account_number, result>>

None == <<>>
Some(v) == <<v>>

\* ------------------------------------------------------------------ bounds
MaxLines == 3
MaxPages == 2
MaxPageLen == 2
MaxTokenLen == 2
MaxDateLines == 3

\* ------------------------------------------------------- configuration
\* Importer.__init__: the account and the statement currency.
importer_account == "Liabilities:Rajhi"
currency == "SAR"

\* ------------------------------------------------------- token classes
Decimals == {"150.00", "2.00", "1,250.50", "0.00", "75.00", "1.50", "73.50", "12.00",
             "10.00", "5.00"}
DateTokens == {"01/05/23", "02/05/23", "31/02/23"}
Codes == {"USD", "SAR", "XYZ"}

\* (\d{1,3}(?:,\d{3})*\.\d+|\d+\.\d+)
IsDecimal(t) == t \in Decimals
\* (\d{2}/\d{2}/\d{2})
IsDate(t) == t \in DateTokens
\* ([A-Z]{3})
IsCode(t) == t \in Codes

\* beancount's D(str(amount)): commas are dropped and the digits are read as a
\* decimal number, kept here as coefficient and exponent (150.00 = 15000E-2).
D(s) ==
    CASE s = "150.00"   -> [coef |-> 15000,  exp |-> -2]
      [] s = "2.00"     -> [coef |-> 200,    exp |-> -2]
      [] s = "1,250.50" -> [coef |-> 125050, exp |-> -2]
      [] s = "0.00"     -> [coef |-> 0,      exp |-> -2]
      [] s = "75.00"    -> [coef |-> 7500,   exp |-> -2]
      [] s = "1.50"     -> [coef |-> 150,    exp |-> -2]
      [] s = "73.50"    -> [coef |-> 7350,   exp |-> -2]
      [] s = "12.00"    -> [coef |-> 1200,   exp |-> -2]
      [] s = "10.00"    -> [coef |-> 1000,   exp |-> -2]
      [] s = "5.00"     -> [coef |-> 500,    exp |-> -2]

\* datetime.strptime(s, '%d/%m/%y').date(): the calendar date, or ValueError
\* (None here) when the day does not exist in the month.
strptime(s) ==
    CASE s = "01/05/23" -> Some([year |-> 2023, month |-> 5, day |-> 1])
      [] s = "02/05/23" -> Some([year |-> 2023, month |-> 5, day |-> 2])
      [] s = "31/02/23" -> None

\* data.Amount(D(str(amount)) * (1 if is_credit else -1), currency)
Amount(amount, is_credit) ==
    [number |-> [coef |-> D(amount).coef * (IF is_credit THEN 1 ELSE -1),
                 exp |-> D(amount).exp],
     currency |-> currency]

\* ------------------------------------------------------------- patterns
\* re.search finds the leftmost match: the first index of s whose element is in
\* the class S, 0 if there is none.
FirstIndex(s, S) ==
    IF \E k \in 1..Len(s) : s[k] \in S
    THEN CHOOSE k \in 1..Len(s) : s[k] \in S /\ \A j \in 1..(k - 1) : s[j] \notin S
    ELSE 0

\* ^(CR\s+)? : the number of tokens the optional credit marker takes.
CrLen(l) == IF Len(l) >= 1 /\ l[1] = "CR" THEN 1 ELSE 0

\* "Advance Payment" in current_line
HasAdvancePayment(l) ==
    \E k \in 1..(Len(l) - 1) : l[k] = "Advance" /\ l[k + 1] = "Payment"

\* advance_payment_pattern: CR? dec dec "Advance Payment" .+? dec CODE date date $
AdvanceMatch(l) ==
    LET c == CrLen(l) n == Len(l) IN
    /\ n >= c + 9
    /\ IsDecimal(l[c + 1]) /\ IsDecimal(l[c + 2])
    /\ l[c + 3] = "Advance" /\ l[c + 4] = "Payment"
    /\ IsDecimal(l[n - 3]) /\ IsCode(l[n - 2])
    /\ IsDate(l[n - 1]) /\ IsDate(l[n])

\* general_pattern and pattern (the same expression): CR? dec dec (.+?) date date $
GeneralMatch(l) ==
    LET c == CrLen(l) n == Len(l) IN
    /\ n >= c + 5
    /\ IsDecimal(l[c + 1]) /\ IsDecimal(l[c + 2])
    /\ IsDate(l[n - 1]) /\ IsDate(l[n])

\* alt_pattern: CR? dec dec "Amount:" dec (.+?) date date $
AltMatch(l) ==
    LET c == CrLen(l) n == Len(l) IN
    /\ n >= c + 7
    /\ IsDecimal(l[c + 1]) /\ IsDecimal(l[c + 2])
    /\ l[c + 3] = "Amount:" /\ IsDecimal(l[c + 4])
    /\ IsDate(l[n - 1]) /\ IsDate(l[n])

\* next_line_amount_pattern: ^Amount:\s+ dec
NextLineAmountMatch(l) == Len(l) >= 2 /\ l[1] = "Amount:" /\ IsDecimal(l[2])

\* re.search(currency_pattern, remaining): the leftmost decimal followed by a
\* three-letter code; the index of the decimal, 0 for no match.
CurrencySearch(r) ==
    IF \E k \in 1..(Len(r) - 1) : IsDecimal(r[k]) /\ IsCode(r[k + 1])
    THEN CHOOSE k \in 1..(Len(r) - 1) :
            /\ IsDecimal(r[k]) /\ IsCode(r[k + 1])
            /\ \A j \in 1..(k - 1) : ~(IsDecimal(r[j]) /\ IsCode(r[j + 1]))
    ELSE 0

\* re.search(r'\b([A-Z]{3})\b', remaining): the first bare code, None if none.
CodeSearch(r) ==
    LET k == FirstIndex(r, Codes) IN IF k = 0 THEN None ELSE Some(r[k])

\* re.search(decimal, remaining): the first decimal, None if none.
DecimalSearch(r) ==
    LET k == FirstIndex(r, Decimals) IN IF k = 0 THEN None ELSE Some(r[k])

\* ------------------------------------------------------------ sanitizer
\* The five expressions of `patterns`, each tried with re.match, that is at the
\* start of the raw line.  The two titles in Arabic presentation forms are
\* written with the stand-in tokens AR_*.
Numbers == {"1", "2"}
Years == {"2023"}
MonthsComma == {"JUNE,"}

\* l starts with the tokens p
StartsWith(l, p) == Len(l) >= Len(p) /\ SubSeq(l, 1, Len(p)) = p

\* r"<statement title, Arabic>"
PatTitleAr(l) == StartsWith(l, <<"AR_kashf", "AR_hisab", "AR_albitaqa", "AR_alitimaniya">>)
\* r"credit card statement"
PatTitleEn(l) == StartsWith(l, <<"credit", "card", "statement">>)
\* r"Page no\. \d+ of \d+"
PatPage(l) ==
    /\ Len(l) >= 5
    /\ l[1] = "Page" /\ l[2] = "no." /\ l[3] \in Numbers /\ l[4] = "of" /\ l[5] \in Numbers
\* r"<monthly statement title, Arabic>"
PatMonthAr(l) == StartsWith(l, <<"AR_kashf", "AR_hisab", "AR_shahr">>)
\* r"[A-Z]+, \d{4} Statement Month"
PatMonthEn(l) ==
    /\ Len(l) >= 4
    /\ l[1] \in MonthsComma /\ l[2] \in Years /\ l[3] = "Statement" /\ l[4] = "Month"

\* any(re.match(pattern, line) for pattern in patterns); a raw line that starts
\* with whitespace matches none of them.
MatchesAnyPattern(raw) ==
    /\ ~raw.lead
    /\ \/ PatTitleAr(raw.toks) \/ PatTitleEn(raw.toks) \/ PatPage(raw.toks)
       \/ PatMonthAr(raw.toks) \/ PatMonthEn(raw.toks)

\* The sanitizer with re.search in place of re.match: a pattern found after
\* leading whitespace drops the line too.
RECURSIVE CleanLinesSearch(_)
CleanLinesSearch(t) ==
    IF t = <<>> THEN <<>>
    ELSE LET rest == CleanLinesSearch(SubSeq(t, 1, Len(t) - 1))
             line == t[Len(t)]
         IN IF ~MatchesAnyPattern([line EXCEPT !.lead = FALSE])
            THEN Append(rest, line) ELSE rest

\* for line in text.splitlines(): if not any(...): clean_lines.append(line)
RECURSIVE CleanLines(_)
CleanLines(t) ==
    IF t = <<>> THEN <<>>
    ELSE LET rest == CleanLines(SubSeq(t, 1, Len(t) - 1))
             line == t[Len(t)]
         IN IF ~MatchesAnyPattern(line) THEN Append(rest, line) ELSE rest

\* [line.strip() for line in text_lines.strip().split('\n') if line.strip()]
RECURSIVE StripLines(_)
StripLines(c) ==
    IF c = <<>> THEN <<>>
    ELSE LET rest == StripLines(SubSeq(c, 1, Len(c) - 1))
             line == c[Len(c)]
         IN IF line.toks # <<>> THEN Append(rest, line.toks) ELSE rest

\* ------------------------------------------------------------ documents
Raw(toks) == [lead |-> FALSE, toks |-> toks]
Indented(toks) == [lead |-> TRUE, toks |-> toks]

LinePool ==
    { Raw(<<"150.00", "2.00", "Shop", "01/05/23", "02/05/23">>),
      Raw(<<"CR", "150.00", "2.00", "Shop", "5.00", "USD", "01/05/23", "02/05/23">>),
      Raw(<<"1,250.50", "2.00", "Shop", "USD", "01/05/23", "02/05/23">>),
      Raw(<<"150.00", "2.00", "Shop", "USD", "31/02/23", "02/05/23">>),
      Raw(<<"75.00", "1.50", "Amount:", "73.50", "USD", "01/05/23", "02/05/23">>),
      Raw(<<"75.00", "1.50", "Amount:", "73.50", "12.00", "USD", "01/05/23", "02/05/23">>),
      Raw(<<"CR", "1,250.50", "0.00", "Advance", "Payment", "XYZ", "1,250.50", "SAR",
            "01/05/23", "02/05/23">>),
      Raw(<<"10.00", "0.00", "Advance", "Payment", "USD", "01/05/23", "02/05/23">>),
      Raw(<<"Advance", "Payment">>),
      Raw(<<"Amount:", "5.00", "USD">>),
      Raw(<<"Amazon">>),
      Raw(<<"Online", "purchase">>),
      Raw(<<"Page", "no.", "1", "of", "2">>),
      Raw(<<"credit", "card", "statement">>),
      Indented(<<"JUNE,", "2023", "Statement", "Month">>),
      Raw(<<>>) }

SeqsUpTo(S, n) == UNION {[1..k -> S] : k \in 0..n}

\* --------------------------------------------------------------- extract
\* The record extract builds (data.Transaction with one data.Posting).
Narration(is_credit, transaction_amount, transaction_currency, transaction_date) ==
    (IF is_credit THEN "CR " ELSE "-") \o transaction_amount \o " "
        \o transaction_currency[1] \o " on " \o transaction_date

\* data.Transaction(...): the arguments are evaluated in order, the posting
\* date first (ValueError), then the narration (TypeError when the currency is
\* None), then units (UnboundLocalError while never assigned).
Build(f, u) ==
    IF strptime(f.posting_date) = None THEN [exc |-> Some("ValueError")]
    ELSE IF f.transaction_currency = None THEN [exc |-> Some("TypeError")]
    ELSE IF u = None THEN [exc |-> Some("UnboundLocalError")]
    ELSE [exc |-> None,
          entry |-> [date |-> strptime(f.posting_date)[1],
                     flag |-> "*",
                     payee |-> f.payee,
                     narration |-> Narration(f.is_credit, f.transaction_amount,
                                             f.transaction_currency, f.transaction_date),
                     tags |-> {},
                     links |-> {},
                     postings |-> <<[account |-> importer_account, units |-> u[1]]>>]]

\* The cursor with the continuation line counted twice.
NextCursorTwice(j, skipped) == j + 2 * skipped + 1

\* Lines 162, 253, 278: i += 1, after one more i += 1 for a continuation line.
NextCursor(j, skipped) == j + skipped + 1

\* The end of an iteration that builds a record from the fields f with units
\* bound to u, `skipped` continuation lines having been passed already.
Complete(f, u, skipped) ==
    LET b == Build(f, u) IN
    /\ units' = u
    /\ visited' = Append(visited, i)
    /\ IF b.exc # None
       THEN /\ pc' = "raised"
            /\ exc' = b.exc
            /\ i' = i + skipped
            /\ UNCHANGED <<entries, srcs, extracted>>
       ELSE /\ pc' = "loop"
            /\ i' = NextCursor(i, skipped)
            /\ entries' = Append(entries, b.entry)
            /\ srcs' = Append(srcs, i)
            /\ extracted' = Append(extracted, f)
            /\ UNCHANGED exc
    /\ UNCHANGED <<text, clean_lines, lines, mimetype, pages, account_number, result>>

\* The locals and the outcome before a call.
Fresh ==
    /\ pc = "start"
    /\ clean_lines = <<>> /\ lines = <<>> /\ i = 0 /\ entries = <<>>
    /\ units = None /\ exc = None /\ result = None
    /\ srcs = <<>> /\ extracted = <<>> /\ visited = <<>>

\* extract is called on a document of at most MaxLines raw lines.
Init ==
    /\ Fresh
    /\ text \in SeqsUpTo(LinePool, MaxLines)
    /\ mimetype = "application/pdf" /\ pages = <<>> /\ account_number = <<>>

\* Lines 75-101: the text is read, the boilerplate lines are dropped, the rest
\* is stripped and the cursor starts at 0.
Prepare ==
    /\ pc = "start"
    /\ clean_lines' = CleanLines(text)
    /\ lines' = StripLines(CleanLines(text))
    /\ i' = 0
    /\ entries' = <<>>
    /\ pc' = "loop"
    /\ UNCHANGED <<text, units, exc, srcs, extracted, visited, mimetype, pages,
                   account_number, result>>

InLoop == pc = "loop" /\ i < Len(lines)
current_line == lines[i + 1]

\* Lines 139-147: the strict Advance Payment pattern matched.
AdvanceFields(l) ==
    LET c == CrLen(l) n == Len(l) IN
    [shape |-> "AdvancePayment",
     is_credit |-> (c = 1),
     amount |-> l[c + 1],
     fee |-> l[c + 2],
     transaction_amount |-> l[n - 3],
     transaction_currency |-> Some(l[n - 2]),
     posting_date |-> l[n - 1],
     transaction_date |-> l[n],
     payee |-> Some(<<"Advance", "payment">>),
     description |-> None]

\* Lines 115-134: only the general pattern matched an Advance Payment line.
AdvanceGeneralFields(l) ==
    LET c == CrLen(l) n == Len(l)
        remaining == SubSeq(l, c + 3, n - 2)
        k == CurrencySearch(remaining)
    IN
    [shape |-> "AdvancePayment",
     is_credit |-> (c = 1),
     amount |-> l[c + 1],
     fee |-> l[c + 2],
     transaction_amount |-> IF k # 0 THEN remaining[k] ELSE l[c + 1],
     transaction_currency |-> IF k # 0 THEN Some(remaining[k + 1]) ELSE CodeSearch(remaining),
     posting_date |-> l[n - 1],
     transaction_date |-> l[n],
     payee |-> Some(<<"Advance", "payment">>),
     description |-> None]

\* Lines 204-206 and 248-250: the two lines above, if there are two.
TwoAbove(ls, j) ==
    IF j >= 2 THEN [payee |-> Some(ls[j - 1]), description |-> Some(ls[j])]
    ELSE [payee |-> None, description |-> None]

\* Lines 259-262: the line above and the line below, where they exist.
AboveBelow(ls, j) ==
    [payee |-> IF j > 0 THEN Some(ls[j]) ELSE None,
     description |-> IF j + 1 < Len(ls) THEN Some(ls[j + 2]) ELSE None]

\* Lines 181-206: alt_pattern matched (Type B); j is the cursor.
TypeBFields(ls, j) ==
    LET l == ls[j + 1] c == CrLen(l) n == Len(l)
        remaining == SubSeq(l, c + 5, n - 2)
        k == CurrencySearch(remaining)
        pd == TwoAbove(ls, j)
    IN
    [shape |-> "AmountAnnotated",
     is_credit |-> (c = 1),
     amount |-> l[c + 1],
     fee |-> l[c + 2],
     transaction_amount |-> l[c + 4],
     transaction_currency |-> IF k # 0 THEN Some(remaining[k + 1]) ELSE None,
     posting_date |-> l[n - 1],
     transaction_date |-> l[n],
     payee |-> pd.payee,
     description |-> pd.description]

\* Line 243: the next line exists and starts with "Amount: <decimal>".
HasContinuation(ls, j) == j + 1 < Len(ls) /\ NextLineAmountMatch(ls[j + 2])

\* Lines 208-262: only `pattern` matched (Type C); j is the cursor.
TypeCFields(ls, j) ==
    LET l == ls[j + 1] c == CrLen(l) n == Len(l)
        remaining == SubSeq(l, c + 3, n - 2)
        k == CurrencySearch(remaining)
        d == DecimalSearch(remaining)
        pd == IF HasContinuation(ls, j) THEN TwoAbove(ls, j) ELSE AboveBelow(ls, j)
    IN
    [shape |-> IF HasContinuation(ls, j) THEN "AmountAnnotated" ELSE "Plain",
     is_credit |-> (c = 1),
     amount |-> l[c + 1],
     fee |-> l[c + 2],
     transaction_amount |-> IF k # 0 THEN remaining[k]
                            ELSE IF d # None THEN d[1] ELSE l[c + 1],
     transaction_currency |-> IF k # 0 THEN Some(remaining[k + 1]) ELSE CodeSearch(remaining),
     posting_date |-> l[n - 1],
     transaction_date |-> l[n],
     payee |-> pd.payee,
     description |-> pd.description]

\* Line 109, first case, and lines 139-163.
AdvanceStrict ==
    /\ InLoop
    /\ AdvanceMatch(current_line)
    /\ LET f == AdvanceFields(current_line)
       IN Complete(f, Some(Amount(f.amount, f.is_credit)), 0)

\* Line 109, second case, and lines 111-134, 150-163: units is not assigned.
AdvanceGeneral ==
    /\ InLoop
    /\ ~AdvanceMatch(current_line) /\ HasAdvancePayment(current_line)
    /\ GeneralMatch(current_line)
    /\ Complete(AdvanceGeneralFields(current_line), units, 0)

\* Lines 135-138: an Advance Payment line no pattern parses is passed over.
AdvanceSkip ==
    /\ InLoop
    /\ ~AdvanceMatch(current_line) /\ HasAdvancePayment(current_line)
    /\ ~GeneralMatch(current_line)
    /\ i' = NextCursor(i, 0)
    /\ visited' = Append(visited, i)
    /\ UNCHANGED <<pc, text, clean_lines, lines, entries, units, exc, srcs, extracted,
                   mimetype, pages, account_number, result>>

NotAdvance(l) == ~AdvanceMatch(l) /\ ~HasAdvancePayment(l)

\* Lines 177-206, 264-278.
TypeB ==
    /\ InLoop
    /\ NotAdvance(current_line)
    /\ AltMatch(current_line)
    /\ LET f == TypeBFields(lines, i)
       IN Complete(f, Some(Amount(f.amount, f.is_credit)), 0)

\* Lines 177-179, 208-278.
TypeC ==
    /\ InLoop
    /\ NotAdvance(current_line)
    /\ GeneralMatch(current_line) /\ ~AltMatch(current_line)
    /\ LET f == TypeCFields(lines, i)
       IN Complete(f, Some(Amount(f.amount, f.is_credit)),
                   IF HasContinuation(lines, i) THEN 1 ELSE 0)

\* Lines 177, 278: neither pattern matches, the cursor moves on.
SkipLine ==
    /\ InLoop
    /\ NotAdvance(current_line)
    /\ ~GeneralMatch(current_line) /\ ~AltMatch(current_line)
    /\ i' = NextCursor(i, 0)
    /\ visited' = Append(visited, i)
    /\ UNCHANGED <<pc, text, clean_lines, lines, entries, units, exc, srcs, extracted,
                   mimetype, pages, account_number, result>>

\* Lines 102, 280: the loop ends and the entries are returned.
Return ==
    /\ pc = "loop" /\ i >= Len(lines)
    /\ pc' = "done"
    /\ result' = Some(entries)
    /\ UNCHANGED <<text, clean_lines, lines, i, entries, units, exc, srcs, extracted,
                   visited, mimetype, pages, account_number>>

Next ==
    \/ Prepare
    \/ AdvanceStrict
    \/ AdvanceGeneral
    \/ AdvanceSkip
    \/ TypeB
    \/ TypeC
    \/ SkipLine
    \/ Return

Spec == Init /\ [][Next]_vars

\* ------------------------------------------------- properties of extract
\* The indices of the records built at cursor j.
RecordsAt(j) == {k \in 1..Len(srcs) : srcs[k] = j}

\* The cursor once the n-th iteration has ended.
CursorAfter(n) == IF n < Len(visited) THEN visited[n + 1] ELSE i

\* The free text of a transaction line: what lies between the fee and the dates.
FreeText(l) == SubSeq(l, CrLen(l) + 3, Len(l) - 2)

\* A line only `pattern` matches, with a posting date that exists.
PlainShaped(l) ==
    /\ NotAdvance(l) /\ GeneralMatch(l) /\ ~AltMatch(l)
    /\ strptime(l[Len(l) - 1]) # None

\* <amount> <fee> Amount: <X> <CUR> <posting date> <transaction date>
AnnotatedForm(l) ==
    /\ NotAdvance(l) /\ AltMatch(l)
    /\ Len(l) = CrLen(l) + 7 /\ IsCode(l[CrLen(l) + 5])
    /\ strptime(l[Len(l) - 1]) # None

\* The units the sign convention gives line l: +raw amount after CR, else -raw amount.
SignedRawAmount(l) ==
    LET c == CrLen(l) IN
    [number |-> [coef |-> IF c = 1 THEN D(l[c + 1]).coef ELSE 0 - D(l[c + 1]).coef,
                 exp |-> D(l[c + 1]).exp],
     currency |-> currency]

\* C1: extract never raises: whatever the lines are, no call ends in an exception.
C1_NeverRaises == pc # "raised" /\ exc = None

\* C2: the posting of every record carries the signed raw amount of the record's
\* own source line, in the statement currency, whatever lines came before it.
C2_UnitsOfOwnLine ==
    \A k \in 1..Len(entries) :
        entries[k].postings[1].units = SignedRawAmount(lines[srcs[k] + 1])

\* C3: a Plain line (no continuation below it) whose free text holds neither a
\* decimal nor a three-letter code yields exactly one record once its iteration
\* has ended: dated by the posting date, with the signed raw amount, the
\* transaction amount defaulting to the raw amount, the currency absent, and the
\* narration sign, amount, " on " and transaction date.
C3_PlainWithoutCurrency ==
    \A n \in 1..Len(visited) :
        LET j == visited[n] l == lines[j + 1] IN
        (/\ PlainShaped(l) /\ ~HasContinuation(lines, j)
         /\ \A t \in 1..Len(FreeText(l)) :
                ~IsDecimal(FreeText(l)[t]) /\ ~IsCode(FreeText(l)[t]))
        => /\ Cardinality(RecordsAt(j)) = 1
           /\ \A k \in RecordsAt(j) :
                /\ entries[k].date = strptime(l[Len(l) - 1])[1]
                /\ entries[k].postings[1].units = SignedRawAmount(l)
                /\ extracted[k].transaction_amount = l[CrLen(l) + 1]
                /\ extracted[k].transaction_currency = None
                /\ \E absent \in {"", "None"} :
                     entries[k].narration =
                        (IF CrLen(l) = 1 THEN "CR " ELSE "-") \o l[CrLen(l) + 1]
                            \o " " \o absent \o " on " \o l[Len(l)]

\* C4: an inline "Amount: X CUR" line at index >= 2 yields one record whose payee
\* is the line two above, whose description is the line above, whose transaction
\* amount is X and whose transaction currency is CUR.
C4_AnnotatedRecord ==
    \A n \in 1..Len(visited) :
        LET j == visited[n] l == lines[j + 1] IN
        (AnnotatedForm(l) /\ j >= 2)
        => /\ Cardinality(RecordsAt(j)) = 1
           /\ \A k \in RecordsAt(j) :
                /\ extracted[k].payee = Some(lines[j - 1])
                /\ extracted[k].description = Some(lines[j])
                /\ extracted[k].transaction_amount = l[CrLen(l) + 4]
                /\ extracted[k].transaction_currency = Some(l[CrLen(l) + 5])
                /\ entries[k].payee = Some(lines[j - 1])

\* C5: a Plain-shaped line followed by an "Amount: <decimal>" line is recorded as
\* AmountAnnotated (payee and description from the two lines above), the cursor
\* goes from i to i+2 and the continuation line is never visited nor recorded;
\* without a continuation the cursor goes from i to i+1.
C5_ContinuationConsumed ==
    \A n \in 1..Len(visited) :
        LET j == visited[n] l == lines[j + 1] IN
        PlainShaped(l)
        => IF HasContinuation(lines, j)
           THEN /\ CursorAfter(n) = j + 2
                /\ \A m \in 1..Len(visited) : visited[m] # j + 1
                /\ RecordsAt(j + 1) = {}
                /\ Cardinality(RecordsAt(j)) = 1
                /\ \A k \in RecordsAt(j) :
                     /\ extracted[k].payee = TwoAbove(lines, j).payee
                     /\ extracted[k].description = TwoAbove(lines, j).description
           ELSE CursorAfter(n) = j + 1

\* C6: a missing neighbour only makes its field absent, the record is emitted all
\* the same: Plain has the payee absent at index 0 and the description absent at
\* the last index, AmountAnnotated (inline or by continuation) has both absent
\* below index 2; otherwise the fields are the neighbouring lines of the shape.
C6_MissingNeighbours ==
    \A n \in 1..Len(visited) :
        LET j == visited[n] l == lines[j + 1] IN
        (PlainShaped(l) \/ (NotAdvance(l) /\ AltMatch(l) /\ strptime(l[Len(l) - 1]) # None))
        => /\ Cardinality(RecordsAt(j)) = 1
           /\ \A k \in RecordsAt(j) :
                IF AltMatch(l) \/ HasContinuation(lines, j)
                THEN /\ extracted[k].payee = IF j < 2 THEN None ELSE Some(lines[j - 1])
                     /\ extracted[k].description = IF j < 2 THEN None ELSE Some(lines[j])
                ELSE /\ extracted[k].payee = IF j = 0 THEN None ELSE Some(lines[j])
                     /\ extracted[k].description =
                            IF j = Len(lines) - 1 THEN None ELSE Some(lines[j + 2])

\* The raw lines no boilerplate pattern matches at their start.
Kept(raw) == ~MatchesAnyPattern(raw)

\* C7: the sanitizer's output is exactly the subsequence of the input lines that
\* match none of the five patterns at their start, in their original order.
C7_SanitizerFilters == pc # "start" => clean_lines = SelectSeq(text, Kept)

\* C7's case: a boilerplate line is dropped from between two lines that are kept.
C7_Witness ==
    /\ pc = "loop"
    /\ Len(text) = 3 /\ Len(clean_lines) = 2
    /\ MatchesAnyPattern(text[2])
    /\ clean_lines = <<text[1], text[3]>>
    /\ text[1] # text[3]

C10_Inv ==
    /\ i \in 0..Len(lines)
    /\ Len(srcs) = Len(entries)
    /\ Len(entries) <= Len(lines)
    /\ Len(visited) <= Len(lines)
    /\ \A k \in 1..Len(srcs) : srcs[k] \in 0..(Len(lines) - 1)
    /\ \A k \in 1..(Len(srcs) - 1) : srcs[k] < srcs[k + 1]
    /\ \A n \in 1..(Len(visited) - 1) : visited[n + 1] - visited[n] \in {1, 2}

C10_Step ==
    /\ \/ entries' = entries
       \/ /\ Len(entries') = Len(entries) + 1
          /\ SubSeq(entries', 1, Len(entries)) = entries
          /\ srcs' = Append(srcs, i)
    /\ i' >= i /\ i' - i <= 2
    /\ (visited' # visited /\ pc' = "loop") => i' - i \in {1, 2}

\* C10: throughout the pass the records are in source-line order, at most one per
\* line: their line indices strictly increase, a record once appended stays as it
\* is, the cursor never goes back, moves by 1 or 2 in every iteration that ends
\* normally and stays within 0..len(lines), and there are at most len(lines)
\* iterations and records.
C10_OrderedSinglePass == [](C10_Inv) /\ [][C10_Step]_vars

\* C10's case: a pass that ended with two records, the cursor having moved by 2.
C10_Witness == pc = "done" /\ Len(entries) = 2 /\ visited = <<0, 2>>

\* -------------------------------------------------------------- identify
MimeTypes == {"application/pdf", "text/csv"}
Chars == {"1", "2"}
\* The regular-expression syntax the search token may use besides literals.
AnyChar == "."
Newline == "\n"

PageTexts == SeqsUpTo(Chars, MaxPageLen)
Tokens == SeqsUpTo(Chars \cup {AnyChar}, MaxTokenLen) \ {<<>>}

\* "\n".join([page.extract_text() for page in pdf.pages])
RECURSIVE JoinPages(_)
JoinPages(ps) ==
    IF ps = <<>> THEN <<>>
    ELSE IF Len(ps) = 1 THEN ps[1]
    ELSE JoinPages(SubSeq(ps, 1, Len(ps) - 1)) \o <<Newline>> \o ps[Len(ps)]

\* re.search(token, t) is not None, for a token of literals and dots.
ReSearch(tok, t) ==
    \E s \in 0..(Len(t) - Len(tok)) :
        \A k \in 1..Len(tok) :
            IF tok[k] = AnyChar THEN t[s + k] # Newline ELSE t[s + k] = tok[k]

\* identify without the test of the text: an empty text is searched as well.
IdentifyResultNoTextTest(mt, ps, tok) ==
    IF mt # "application/pdf" THEN Some(FALSE)
    ELSE Some(ReSearch(tok, JoinPages(ps)))

\* Lines 51-60; the call falls off the end, returning None, when the text is empty.
IdentifyResult(mt, ps, tok) ==
    IF mt # "application/pdf" THEN Some(FALSE)
    ELSE IF JoinPages(ps) # <<>> THEN Some(ReSearch(tok, JoinPages(ps)))
    ELSE None

InitIdentify ==
    /\ Fresh
    /\ text = <<>>
    /\ mimetype \in MimeTypes
    /\ pages \in SeqsUpTo(PageTexts, MaxPages)
    /\ account_number \in Tokens

Identify ==
    /\ pc = "start"
    /\ pc' = "returned"
    /\ result' = IdentifyResult(mimetype, pages, account_number)
    /\ UNCHANGED <<text, clean_lines, lines, i, entries, units, exc, srcs, extracted,
                   visited, mimetype, pages, account_number>>

SpecIdentify == InitIdentify /\ [][Identify]_vars

\* The text identify extracts: none unless the file is a PDF.
ExtractedText == IF mimetype = "application/pdf" THEN JoinPages(pages) ELSE <<>>

\* t contains the token tok, character for character.
Contains(t, tok) ==
    \E s \in 0..(Len(t) - Len(tok)) : SubSeq(t, s + 1, s + Len(tok)) = tok

ModuleNames ==
    {"csv", "pdfplumber", "datetime", "re", "logging", "sp", "ROUND_DOWN", "path",
     "StringIO", "parse", "defaultdict", "parse_datetime", "account", "amount", "data",
     "flags", "position", "D", "ZERO", "beangulp", "mimetypes", "cache", "main",
     "Importer"}

\* The lines date is tried on.
DatePool ==
    { Raw(<<"Date:", "15/06/2023">>),
      Raw(<<"Statement", "Date:", "01/07/2023">>),
      Raw(<<"Amazon">>),
      Raw(<<"Page", "no.", "1", "of", "2">>),
      Raw(<<>>) }

\* The index in t of the first line with "Date: " and something after it, or 0.
DateLine(t) ==
    FirstIndex(t, {raw \in DatePool : \E k \in 1..(Len(raw.toks) - 1) : raw.toks[k] = "Date:"})

\* match.group(1): the rest of the line after the first "Date: ".
DateValue(raw) ==
    SubSeq(raw.toks, FirstIndex(raw.toks, {"Date:"}) + 1, Len(raw.toks))

\* dateutil's parse(...).date(), the month read first where it can be.
parse_datetime(v) ==
    CASE v = <<"15/06/2023">> -> [year |-> 2023, month |-> 6, day |-> 15]
      [] v = <<"01/07/2023">> -> [year |-> 2023, month |-> 1, day |-> 7]

InitDate ==
    /\ Fresh
    /\ text \in SeqsUpTo(DatePool, MaxDateLines)
    /\ mimetype = "application/pdf" /\ pages = <<>> /\ account_number = <<>>

\* Lines 62-67: the global pdf_to_text is looked up first, NameError if unbound.
Date ==
    /\ pc = "start"
    /\ IF "pdf_to_text" \notin ModuleNames
       THEN pc' = "raised" /\ exc' = Some("NameError") /\ UNCHANGED result
       ELSE /\ pc' = "returned"
            /\ result' = IF DateLine(text) # 0
                         THEN Some(parse_datetime(DateValue(text[DateLine(text)])))
                         ELSE None
            /\ UNCHANGED exc
    /\ UNCHANGED <<text, clean_lines, lines, i, entries, units, srcs, extracted,
                   visited, mimetype, pages, account_number>>

SpecDate == InitDate /\ [][Date]_vars

\* C9: date returns the parsed value of the first "Date: <value>" line, and
\* returns nothing, without an error, when the document has no such line.
C9_DateOfFirstDateLine ==
    pc # "start"
    => /\ exc = None
       /\ result = IF DateLine(text) # 0
                   THEN Some(parse_datetime(DateValue(text[DateLine(text)])))
                   ELSE None

====
